---- MODULE Spec2Model ----
(***************************************************************************)
(* A model of scripts/fuzz_orchestrator.py: the configuration loader       *)
(* (FuzzTarget.from_dict, FuzzTarget.validate, load_targets,               *)
(* _ensure_unique_names), the sequential build scheduler (build_projects), *)
(* the thread-pool run scheduler (run_targets) and the driver (main).      *)
(*                                                                         *)
(* A YAML mapping is a record whose fields are optional values: <<>> is a  *)
(* key that is absent, <<v>> a key that is present with value v.  A YAML   *)
(* number-or-null is IntV(n) or NullV.                                     *)
(***************************************************************************)
EXTENDS Integers, Sequences, FiniteSets, TLC

\* ------------------------------------------------------------- bounds

\* The longest `targets` sequence of a configuration document.
MaxEntries == 3

\* The largest --max-parallel given on the command line (the least is 0).
MaxParallelArg == 2

\* ------------------------------------------------------ YAML values

IntV(n) == [t |-> "int", v |-> n]

NullV == [t |-> "null", v |-> 0]

\* dict.get(key, default)
Get(data, key, default) == IF data[key] = <<>> THEN default ELSE data[key][1]

\* `not data.get(field)` for a string field: the key is absent or its value
\* is the empty string.
Falsy(data, key) == data[key] = <<>> \/ data[key][1] = ""

\* int(x): the integer itself; int(None) raises TypeError.
PyInt(x) == IF x.t = "int" THEN [ok |-> TRUE, v |-> x.v] ELSE [ok |-> FALSE, v |-> 0]

\* ------------------------------------------------------- FuzzTarget

DefaultRunSeconds == 900

RequiredFields == <<"name", "project", "fuzz_target">>

\* An entry of the `targets` sequence that is not a mapping (a scalar, a list).
NotAMapping ==
    [mapping |-> FALSE, name |-> <<>>, project |-> <<>>, fuzz_target |-> <<>>,
     enabled |-> <<>>, sanitizer |-> <<>>, environment |-> <<>>,
     max_run_seconds |-> <<>>, binaries |-> <<>>]

\* The missing required fields, in the order of `required`.
MissingFields(data) == SelectSeq(RequiredFields, LAMBDA f : Falsy(data, f))

\* `binaries[0].get("max_run_seconds", 900) if binaries else 900`
DefaultRunSecondsOf(data) ==
    IF data.binaries = <<>>
    THEN IntV(DefaultRunSeconds)
    ELSE Get(data.binaries[1], "max_run_seconds", IntV(DefaultRunSeconds))

\* The variables execute sets in the environment of a run.
InjectedVars == {"FUZZ_TARGET", "FUZZ_PROJECT", "SANITIZER", "ARTIFACT_DIR"}

\* The environment variables of the model: those the scheduler injects and two
\* it does not.
EnvVars == InjectedVars \cup {"FOO", "BAR"}

\* An EnvMap: each variable is unset (<<>>) or set (<<value>>).
NoEnv == [n \in EnvVars |-> <<>>]

\* dict.update on an EnvMap: the variables `other` sets replace those of `env`.
Update(env, other) == [n \in EnvVars |-> IF other[n] # <<>> THEN other[n] ELSE env[n]]

\* `data.get("environment", {}) or {}`: a YAML environment is
\* [kind |-> "map", map |-> an EnvMap] or [kind |-> "other"], a non-mapping
\* that is not falsy.
EmptyEnv == [kind |-> "map", map |-> NoEnv]

EnvironmentRaw(data) == Get(data, "environment", EmptyEnv)

\* FuzzTarget.from_dict: the target, an OrchestratorError, or another
\* exception (AttributeError on an entry without .get, TypeError of int(None)).
FromDict(data) ==
    IF ~data.mapping
    THEN [tag |-> "AttributeError"]
    ELSE IF MissingFields(data) # <<>>
    THEN [tag |-> "OrchestratorError",
          msg |-> [kind |-> "missing", fields |-> MissingFields(data), got |-> 0]]
    ELSE IF EnvironmentRaw(data).kind # "map"
    THEN [tag |-> "OrchestratorError",
          msg |-> [kind |-> "environment", fields |-> <<>>, got |-> 0]]
    ELSE LET secs == PyInt(Get(data, "max_run_seconds", DefaultRunSecondsOf(data)))
         IN  IF ~secs.ok
             THEN [tag |-> "TypeError"]
             ELSE [tag |-> "ok",
                   target |-> [name |-> data.name[1],
                               project |-> data.project[1],
                               fuzz_target |-> data.fuzz_target[1],
                               enabled |-> Get(data, "enabled", TRUE),
                               sanitizer |-> Get(data, "sanitizer", "address"),
                               environment |-> EnvironmentRaw(data).map,
                               max_run_seconds |-> secs.v]]

\* FuzzTarget.validate: raises when max_run_seconds <= 0.
ValidateMutant(target) ==
    IF target.max_run_seconds < 0
    THEN [tag |-> "OrchestratorError",
          msg |-> [kind |-> "max_run_seconds", fields |-> <<>>,
                   got |-> target.max_run_seconds]]
    ELSE [tag |-> "ok", target |-> target]

Validate(target) ==
    IF target.max_run_seconds <= 0
    THEN [tag |-> "OrchestratorError",
          msg |-> [kind |-> "max_run_seconds", fields |-> <<>>,
                   got |-> target.max_run_seconds]]
    ELSE [tag |-> "ok", target |-> target]

\* The body of the `try` of load_targets' loop: from_dict, then validate.
ParseEntry(entry) ==
    LET r == FromDict(entry)
    IN  IF r.tag = "ok" THEN Validate(r.target) ELSE r

\* _ensure_unique_names: the loop over `targets` with its `seen` and
\* `duplicates` sets; the result is `duplicates`.
RECURSIVE UniqueScan(_, _, _, _)
UniqueScan(ts, i, seen, duplicates) ==
    IF i > Len(ts)
    THEN duplicates
    ELSE IF ts[i].name \in seen
         THEN UniqueScan(ts, i + 1, seen, duplicates \cup {ts[i].name})
         ELSE UniqueScan(ts, i + 1, seen \cup {ts[i].name}, duplicates)

\* An _ensure_unique_names that compares each target with the one before it.
DuplicateNamesMutant(ts) ==
    {ts[i].name : i \in {j \in DOMAIN ts : j > 1 /\ ts[j].name = ts[j - 1].name}}

DuplicateNames(ts) == UniqueScan(ts, 1, {}, {})

\* A load_targets without its enabled filter.
EnabledTargetsMutant(ps) == ps

\* `[t for t in parsed if t.enabled]`
EnabledTargets(ps) == SelectSeq(ps, LAMBDA t : t.enabled)

\* `entry.get("name") if isinstance(entry, dict) else "<invalid>"`: <<>> is None.
EntryName(entry) == IF entry.mapping THEN entry.name ELSE <<"<invalid>">>

\* ----------------------------------------------------------- errors

NoCause == [kind |-> "none", code |-> 0]

\* An exception: its type, what it is about, and what its message holds: the
\* per-entry items of an invalid configuration, the duplicated names, the
\* target of a failed run and the cause of a failed helper.
Exc(type, kind, items, names, target, cause) ==
    [type |-> type, kind |-> kind, items |-> items, names |-> names,
     target |-> target, cause |-> cause]

NoError == Exc("none", "", <<>>, {}, "", NoCause)

ConfigError(kind) == Exc("OrchestratorError", kind, <<>>, {}, "", NoCause)

\* What leaves run_helper when the output of the helper process is no text in
\* the pipe's encoding: no OrchestratorError.
DecodeError ==
    Exc("UnicodeDecodeError", "helper", <<>>, {}, "", [kind |-> "decode", code |-> 0])

\* run_helper's two errors: a non-zero exit and a failure to execute.
HelperFailed(code) ==
    Exc("OrchestratorError", "helper", <<>>, {}, "", [kind |-> "exit", code |-> code])

HelperNotExecuted ==
    Exc("OrchestratorError", "helper", <<>>, {}, "", [kind |-> "spawn", code |-> 0])

\* A line of a log file: the header run_helper writes first, a line of the
\* helper process's output, or the line run_helper writes for a non-zero exit.
Line(kind, text, code) == [kind |-> kind, text |-> text, code |-> code]

NoLine == Line("none", "", 0)

HeaderLine == Line("header", "", 0)

OutputLine(text) == Line("output", text, 0)

FailureLine(code) == Line("failure", "", code)

\* ------------------------------------------------------------ state

VARIABLES
    helperExists,   \* main: helper_path.exists()
    config,         \* the configuration document at config_path
    maxParallel,    \* args.max_parallel
    baseEnv,        \* main: `base_env`, the copy of os.environ
    pc,             \* where the main thread is
    exitCode,       \* the exit status of the process, -1 while it runs
    error,          \* the exception that ended main's try block
    loadIdx,        \* load_targets: `index` of the loop over targets_raw
    parsed,         \* load_targets: `parsed`
    errors,         \* load_targets: `errors`
    targets,        \* main: `targets`, the list load_targets returned
    buildIdx,       \* build_projects: position of the loop over targets
    built,          \* build_projects: `built`
    builds,         \* every build invocation of run_helper, in order
    runs,           \* per target: the run invocation of run_helper
    submitIdx,      \* run_targets: position of the submit comprehension
    fstate,         \* per target: the state of its Future
    queue,          \* the executor's work queue
    finished,       \* as_completed: `finished`, yielded in no given order
    batch,          \* as_completed: the list _yield_finished_futures pops
    pending,        \* as_completed: `pending`
    waiterList,     \* as_completed: waiter.finished_futures
    failed,         \* run_targets: `target` in its except clause, 0 outside
    cancelIdx,      \* run_targets: position of the loop cancelling futures
    snapshot,       \* history: the futures as_completed found finished at once
    firstFailure,   \* history: the first run to fail, and the targets that
                    \* no worker had taken by then
    hpc,            \* run_helper: where one invocation of it is
    handle,         \* run_helper: `logfile`: "none", "open" or "closed"
    logBefore,      \* history: the log file's lines when run_helper was called
    logContent,     \* the log file's lines
    script,         \* the lines the helper process emits before it exits
    proc,           \* the helper process: "none", "running" or "exited"
    procCode,       \* the exit status of the helper process
    emitted,        \* how many lines the helper process has emitted
    readN,          \* how many lines run_helper has read from process.stdout
    cur,            \* run_helper: `line`
    herror          \* the exception run_helper raised

loadVars == <<loadIdx, parsed, errors>>

buildVars == <<buildIdx, built, builds>>

runVars == <<runs, submitIdx, fstate, queue, finished, batch, pending,
             waiterList, failed, cancelIdx, snapshot, firstFailure>>

helperVars == <<hpc, handle, logBefore, logContent, script, proc, procCode,
                emitted, readN, cur, herror>>

vars == <<helperExists, config, maxParallel, baseEnv, pc, exitCode, error, loadVars,
          targets, buildVars, runVars, helperVars>>

argVars == <<helperExists, config, maxParallel>>

inputVars == <<argVars, baseEnv, helperVars>>

mainVars == <<argVars, baseEnv, pc, exitCode, error, loadVars, targets,
              buildVars, runVars>>

\* ----------------------------------------------------------- inputs

OtherEnv == [kind |-> "other", map |-> NoEnv]

\* A mapping entry with the given keys; every other key is absent.
Entry(name, project, fuzzTarget, enabled, sanitizer) ==
    [mapping |-> TRUE, name |-> name, project |-> project,
     fuzz_target |-> fuzzTarget, enabled |-> enabled, sanitizer |-> sanitizer,
     environment |-> <<>>, max_run_seconds |-> <<>>, binaries |-> <<>>]

\* A first element of `binaries`, with or without its max_run_seconds.
Binary(secs) == [max_run_seconds |-> secs]

\* The configuration documents load_targets rejects before it reads an entry:
\* no file, YAML that does not parse, a root that is no mapping, no `targets`
\* list.
BadDocuments == {"notfound", "yaml", "root", "notargets"}

Document(kind, entries) == [kind |-> kind, targets |-> entries]

\* Every sequence over S of length at most n.
SeqUpTo(S, n) == UNION {[1..k -> S] : k \in 0..n}

\* The entries of the documents main is run on: targets a and b share the
\* build key (p1, address) and c, of the same project, has the key
\* (p1, memory); one entry lacks its project and one is no mapping.
MainEntries ==
    {Entry(<<"a">>, <<"p1">>, <<"fz1">>, <<>>, <<>>),
     Entry(<<"b">>, <<"p1">>, <<"fz2">>, <<TRUE>>, <<"address">>),
     Entry(<<"c">>, <<"p1">>, <<"fz1">>, <<>>, <<"memory">>),
     Entry(<<"e">>, <<>>, <<"fz1">>, <<>>, <<>>),
     NotAMapping}

MainDocuments ==
    {Document(k, <<>>) : k \in BadDocuments}
        \cup {Document("list", es) : es \in SeqUpTo(MainEntries, MaxEntries)}

\* The longest `targets` sequence of the documents load_targets alone is run on.
MaxLoadEntries == 4

\* The entries of those documents: two enabled targets, a disabled namesake of
\* the first, an entry without project and fuzz_target, a disabled entry with
\* max_run_seconds 0, and an entry that is no mapping.
LoadEntries ==
    {Entry(<<"a">>, <<"p1">>, <<"fz1">>, <<>>, <<>>),
     Entry(<<"b">>, <<"p1">>, <<"fz2">>, <<TRUE>>, <<>>),
     Entry(<<"a">>, <<"p2">>, <<"fz1">>, <<FALSE>>, <<>>),
     Entry(<<"b">>, <<>>, <<>>, <<>>, <<>>),
     [Entry(<<"c">>, <<"p1">>, <<"fz1">>, <<FALSE>>, <<>>)
         EXCEPT !.max_run_seconds = <<IntV(0)>>],
     NotAMapping}

\* Every mapping entry over small sets of values for each key that from_dict
\* and validate decide on.
FieldEntries ==
    [mapping : {TRUE},
     name : {<<>>, <<"">>, <<"a">>},
     project : {<<>>, <<"p1">>},
     fuzz_target : {<<>>, <<"fz1">>},
     enabled : {<<>>, <<FALSE>>},
     sanitizer : {<<>>},
     environment : {<<>>, <<OtherEnv>>,
                    <<[kind |-> "map",
                       map |-> [n \in EnvVars |->
                                   IF n = "FOO" THEN <<"x">> ELSE <<>>]]>>},
     max_run_seconds : {<<>>, <<NullV>>, <<IntV(-1)>>, <<IntV(0)>>, <<IntV(60)>>},
     binaries : {<<>>, <<Binary(<<>>)>>, <<Binary(<<NullV>>)>>,
                 <<Binary(<<IntV(0)>>)>>, <<Binary(<<IntV(30)>>)>>}]

\* The documents load_targets alone is run on: the sequences over LoadEntries
\* and the documents of one entry of FieldEntries.
LoadDocuments ==
    {Document(k, <<>>) : k \in BadDocuments}
        \cup {Document("list", es) : es \in SeqUpTo(LoadEntries, MaxLoadEntries)}
        \cup {Document("list", <<e>>) : e \in FieldEntries}

\* The longest `targets` sequence of the documents main is run on with target
\* environments.
MaxEnvEntries == 2

\* The exit statuses of a helper process.
ExitCodes == {0, 2}

\* An EnvMap that sets the given variables.
EnvOf(pairs) == [n \in EnvVars |-> IF n \in DOMAIN pairs THEN <<pairs[n]>> ELSE <<>>]

\* The process environment main is run in.
MainBaseEnv == EnvOf([FOO |-> "base", BAR |-> "base"])

\* The entry with `environment: map`.
WithEnv(entry, map) ==
    [entry EXCEPT !.environment = <<[kind |-> "map", map |-> map]>>]

\* Process environments: empty, without and with variables of InjectedVars.
BaseEnvs ==
    {NoEnv, MainBaseEnv,
     EnvOf([FOO |-> "base", SANITIZER |-> "base", ARTIFACT_DIR |-> "base"])}

\* Entries with an environment: target a sets FOO and SANITIZER; target a/,
\* of the same build key, sets BAR and FUZZ_TARGET; and a target of another
\* key, also named a, sets nothing.
EnvEntries ==
    {WithEnv(Entry(<<"a">>, <<"p1">>, <<"fz1">>, <<>>, <<>>),
             EnvOf([FOO |-> "a", SANITIZER |-> "a"])),
     WithEnv(Entry(<<"a/">>, <<"p1">>, <<"fz2">>, <<>>, <<"address">>),
             EnvOf([BAR |-> "a/", FUZZ_TARGET |-> "a/"])),
     Entry(<<"a">>, <<"p2">>, <<"fz1">>, <<>>, <<"memory">>)}

EnvDocuments == {Document("list", es) : es \in SeqUpTo(EnvEntries, MaxEnvEntries)}

\* ------------------------------------------------------------- main

\* A main whose every except clause returns 1.
ExitStatusMutant(exc) == 1

\* The exit status for an exception raised in main's try block: 130 for
\* KeyboardInterrupt, 1 for OrchestratorError and yaml.YAMLError, and 1 from
\* the interpreter for an exception main does not catch.
ExitStatus(exc) == IF exc.type = "KeyboardInterrupt" THEN 130 ELSE 1

\* What main's except clauses make of an exception raised in its try block:
\* OrchestratorError, yaml.YAMLError and KeyboardInterrupt are caught; any
\* other exception leaves main uncaught.
Raise(exc) ==
    /\ error' = exc
    /\ pc' = IF exc.type \in {"OrchestratorError", "YAMLError", "KeyboardInterrupt"}
             THEN "done" ELSE "uncaught"
    /\ exitCode' = ExitStatus(exc)

\* No invocation of run_helper is followed line by line.
HelperIdle ==
    /\ hpc = "idle"
    /\ handle = "none"
    /\ logBefore = <<>>
    /\ logContent = <<>>
    /\ script = <<>>
    /\ proc = "none"
    /\ procCode = 0
    /\ emitted = 0
    /\ readN = 0
    /\ cur = NoLine
    /\ herror = NoError

Init ==
    /\ helperExists \in BOOLEAN
    /\ config \in MainDocuments
    /\ maxParallel \in 0..MaxParallelArg
    /\ baseEnv = MainBaseEnv
    /\ pc = "main"
    /\ exitCode = -1
    /\ error = NoError
    /\ loadIdx = 0
    /\ parsed = <<>>
    /\ errors = <<>>
    /\ targets = <<>>
    /\ buildIdx = 0
    /\ built = {}
    /\ builds = <<>>
    /\ runs = <<>>
    /\ submitIdx = 0
    /\ fstate = <<>>
    /\ queue = <<>>
    /\ finished = {}
    /\ batch = <<>>
    /\ pending = {}
    /\ waiterList = <<>>
    /\ failed = 0
    /\ cancelIdx = 0
    /\ snapshot = <<>>
    /\ firstFailure = <<>>
    /\ HelperIdle

\* main, to the start of its try block: without helper.py it returns 1.
Start ==
    /\ pc = "main"
    /\ IF helperExists
       THEN pc' = "load_targets" /\ UNCHANGED exitCode
       ELSE pc' = "done" /\ exitCode' = 1
    /\ UNCHANGED <<inputVars, error, loadVars, targets, buildVars, runVars>>

\* load_targets, to the start of its loop.
LoadOpen ==
    /\ pc = "load_targets"
    /\ CASE config.kind = "notfound" ->
              Raise(ConfigError("notfound")) /\ UNCHANGED loadVars
         [] config.kind = "yaml" ->
              Raise(Exc("YAMLError", "yaml", <<>>, {}, "", NoCause))
              /\ UNCHANGED loadVars
         [] config.kind = "root" ->
              Raise(ConfigError("root")) /\ UNCHANGED loadVars
         [] config.kind = "notargets" ->
              Raise(ConfigError("notargets")) /\ UNCHANGED loadVars
         [] OTHER ->
              /\ pc' = "load_loop"
              /\ loadIdx' = 1
              /\ parsed' = <<>>
              /\ errors' = <<>>
              /\ UNCHANGED <<exitCode, error>>
    /\ UNCHANGED <<inputVars, targets, buildVars, runVars>>

\* One iteration of load_targets' loop: the entry is parsed and validated; an
\* OrchestratorError becomes an item of `errors`, any other exception leaves
\* load_targets.
LoadEntry ==
    /\ pc = "load_loop"
    /\ loadIdx <= Len(config.targets)
    /\ LET entry == config.targets[loadIdx]
           r == ParseEntry(entry)
       IN  CASE r.tag = "ok" ->
                  /\ parsed' = Append(parsed, r.target)
                  /\ loadIdx' = loadIdx + 1
                  /\ UNCHANGED <<errors, pc, exitCode, error>>
             [] r.tag = "OrchestratorError" ->
                  /\ errors' = Append(errors, [index |-> loadIdx,
                                               name |-> EntryName(entry),
                                               msg |-> r.msg])
                  /\ loadIdx' = loadIdx + 1
                  /\ UNCHANGED <<parsed, pc, exitCode, error>>
             [] OTHER ->
                  /\ Raise(Exc(r.tag, "entry", <<>>, {}, "", NoCause))
                  /\ UNCHANGED loadVars
    /\ UNCHANGED <<inputVars, targets, buildVars, runVars>>

\* A load_targets that records its combined error without raising it, and
\* returns the entries that parsed.
LoadFinishMutant ==
    /\ pc = "load_loop"
    /\ loadIdx > Len(config.targets)
    /\ error' = IF errors # <<>>
                THEN Exc("OrchestratorError", "invalid", errors, {}, "", NoCause)
                ELSE error
    /\ targets' = EnabledTargets(parsed)
    /\ buildIdx' = 1
    /\ pc' = "build"
    /\ UNCHANGED <<inputVars, exitCode, loadVars, built, builds, runVars>>

\* load_targets after its loop: the combined error, the enabled filter, the
\* unique names; then main's artifacts_dir.mkdir and base_env.
LoadFinish ==
    /\ pc = "load_loop"
    /\ loadIdx > Len(config.targets)
    /\ LET enabled_targets == EnabledTargets(parsed)
       IN  IF errors # <<>>
           THEN Raise(Exc("OrchestratorError", "invalid", errors, {}, "", NoCause))
                /\ UNCHANGED <<targets, buildIdx>>
           ELSE IF enabled_targets = <<>>
           THEN Raise(ConfigError("noenabled")) /\ UNCHANGED <<targets, buildIdx>>
           ELSE IF DuplicateNames(enabled_targets) # {}
           THEN Raise(Exc("OrchestratorError", "duplicate", <<>>,
                          DuplicateNames(enabled_targets), "", NoCause))
                /\ UNCHANGED <<targets, buildIdx>>
           ELSE /\ targets' = enabled_targets
                /\ buildIdx' = 1
                /\ pc' = "build"
                /\ UNCHANGED <<exitCode, error>>
    /\ UNCHANGED <<inputVars, loadVars, built, builds, runVars>>

\* --------------------------------------------------- build_projects

\* `key = (target.project, target.sanitizer)`
BuildKey(target) == <<target.project, target.sanitizer>>

\* An invocation of run_helper: the target it is for, its log file, the
\* environment of the helper process, and the process: "running", "exited"
\* with a code, "spawnfail" when Popen raised OSError, or "abandoned" when
\* run_helper was left by UnicodeDecodeError with the process still running.
Invocation(idx, key, log, env, state, code) ==
    [idx |-> idx, key |-> key, log |-> log, env |-> env, state |-> state,
     code |-> code]

\* `name.split("/")` for the names of the model.
Components(name) == IF name = "a/" THEN <<"a", "">> ELSE <<name>>

\* `artifacts / target.name`, as the components below the artifacts directory:
\* pathlib drops the empty and the "." components of a relative path.
ArtifactDir(name) == SelectSeq(Components(name), LAMBDA c : c \notin {"", "."})

\* str() of a path below the artifacts directory.
RECURSIVE PathStr(_)
PathStr(parts) ==
    IF parts = <<>> THEN "artifacts" ELSE PathStr(SubSeq(parts, 1, Len(parts) - 1)) \o "/" \o parts[Len(parts)]

\* A build log kept per project instead of per target.
BuildLogMutant(target) == Append(ArtifactDir(target.project), "build.log")

BuildLog(target) == Append(ArtifactDir(target.name), "build.log")

RunLog(target) == Append(ArtifactDir(target.name), "run.log")

\* A _merge_env that updates `base` itself and returns it.
MergeEnvMutant(base, overrides) ==
    [env |-> Update(base, overrides), base |-> Update(base, overrides)]

\* _merge_env: `env` is what it returns, a copy of `base` updated with
\* `overrides`, and `base` what the caller's mapping holds afterwards.
MergeEnv(base, overrides) == [env |-> Update(base, overrides), base |-> base]

\* The mapping execute updates its environment with.
InjectedEnv(target) ==
    [n \in EnvVars |->
        CASE n = "FUZZ_TARGET" -> <<target.fuzz_target>>
          [] n = "FUZZ_PROJECT" -> <<target.project>>
          [] n = "SANITIZER" -> <<target.sanitizer>>
          [] n = "ARTIFACT_DIR" -> <<PathStr(ArtifactDir(target.name))>>
          [] OTHER -> <<>>]

\* An execute that applies the target's environment after its own variables.
RunEnvMutant(merged, target) == Update(Update(merged, InjectedEnv(target)), target.environment)

\* execute's `env` once updated, from the result of _merge_env.
RunEnv(merged, target) == Update(merged, InjectedEnv(target))

\* One iteration of build_projects' loop, to the helper process's start: a key
\* already built is skipped; otherwise run_helper spawns the build, or fails to.
BuildNext ==
    /\ pc = "build"
    /\ buildIdx <= Len(targets)
    /\ LET target == targets[buildIdx]
           key == BuildKey(target)
           merged == MergeEnv(baseEnv, target.environment)
       IN  IF key \in built
           THEN /\ buildIdx' = buildIdx + 1
                /\ UNCHANGED <<builds, baseEnv, pc, exitCode, error>>
           ELSE /\ baseEnv' = merged.base
                /\ \/ /\ builds' = Append(builds,
                            Invocation(buildIdx, key, BuildLog(target),
                                       merged.env, "running", 0))
                      /\ pc' = "build_wait"
                      /\ UNCHANGED <<buildIdx, exitCode, error>>
                   \/ /\ builds' = Append(builds,
                            Invocation(buildIdx, key, BuildLog(target),
                                       merged.env, "spawnfail", 0))
                      /\ Raise(HelperNotExecuted)
                      /\ UNCHANGED buildIdx
    /\ UNCHANGED <<argVars, helperVars, loadVars, targets, built, runVars>>

\* A build_projects that forgets the key it built.
MarkBuiltMutant(done, key) == done

\* What build_projects does with the key of a build that exited with 0.
MarkBuilt(done, key) == done \cup {key}

\* A run_helper that does not raise on a non-zero exit: the build loop goes on.
BuildExitMutant ==
    /\ pc = "build_wait"
    /\ \E code \in ExitCodes :
          LET n == Len(builds)
          IN  /\ builds' = [builds EXCEPT ![n].state = "exited", ![n].code = code]
              /\ built' = MarkBuilt(built, builds[n].key)
              /\ buildIdx' = buildIdx + 1
              /\ pc' = "build"
              /\ UNCHANGED <<exitCode, error>>
    /\ UNCHANGED <<inputVars, loadVars, targets, runVars>>

\* A build_projects that marks the key built before it calls run_helper.
BuildExitMarkedMutant ==
    /\ pc = "build_wait"
    /\ \E code \in ExitCodes :
          LET n == Len(builds)
          IN  /\ builds' = [builds EXCEPT ![n].state = "exited", ![n].code = code]
              /\ built' = MarkBuilt(built, builds[n].key)
              /\ IF code = 0
                 THEN /\ buildIdx' = buildIdx + 1
                      /\ pc' = "build"
                      /\ UNCHANGED <<exitCode, error>>
                 ELSE /\ Raise(HelperFailed(code))
                      /\ UNCHANGED buildIdx
    /\ UNCHANGED <<inputVars, loadVars, targets, runVars>>

\* The build's helper process exits: with 0 the key is marked built and the
\* loop goes on, otherwise run_helper raises and build_projects with it.
BuildExit ==
    /\ pc = "build_wait"
    /\ \E code \in ExitCodes :
          LET n == Len(builds)
          IN  /\ builds' = [builds EXCEPT ![n].state = "exited", ![n].code = code]
              /\ IF code = 0
                 THEN /\ built' = MarkBuilt(built, builds[n].key)
                      /\ buildIdx' = buildIdx + 1
                      /\ pc' = "build"
                      /\ UNCHANGED <<exitCode, error>>
                 ELSE /\ Raise(HelperFailed(code))
                      /\ UNCHANGED <<built, buildIdx>>
    /\ UNCHANGED <<inputVars, loadVars, targets, runVars>>

\* The output of the build's helper process is no text: run_helper is left by
\* UnicodeDecodeError without waiting for the process, and main with it.
BuildDecodeError ==
    /\ pc = "build_wait"
    /\ builds' = [builds EXCEPT ![Len(builds)].state = "abandoned"]
    /\ Raise(DecodeError)
    /\ UNCHANGED <<inputVars, loadVars, targets, built, buildIdx, runVars>>

\* ------------------------------------------------------ run_targets

Min(a, b) == IF a < b THEN a ELSE b

Max(a, b) == IF a > b THEN a ELSE b

\* A pool with one worker per target, whatever max_parallel is.
WorkerCountMutant == Max(1, Len(targets))

\* A pool without the floor of one worker: none for max_parallel <= 0.
WorkerCountUnclampedMutant == Min(maxParallel, Len(targets))

\* `worker_count = max(1, min(max_parallel, len(targets)))`
WorkerCount == Max(1, Min(maxParallel, Len(targets)))

NoRun == Invocation(0, <<>>, <<>>, NoEnv, "none", 0)

\* build_projects returns and run_targets starts: no future exists yet.
BuildDone ==
    /\ pc = "build"
    /\ buildIdx > Len(targets)
    /\ pc' = "submit"
    /\ submitIdx' = 1
    /\ runs' = [i \in 1..Len(targets) |-> NoRun]
    /\ fstate' = [i \in 1..Len(targets) |-> "UNSUBMITTED"]
    /\ UNCHANGED <<inputVars, exitCode, error, loadVars, targets, buildVars,
                   queue, finished, batch, pending, waiterList, failed,
                   cancelIdx, snapshot, firstFailure>>

\* `executor.submit(execute, target)` for the next target.
Submit ==
    /\ pc = "submit"
    /\ submitIdx <= Len(targets)
    /\ fstate' = [fstate EXCEPT ![submitIdx] = "PENDING"]
    /\ queue' = Append(queue, submitIdx)
    /\ submitIdx' = submitIdx + 1
    /\ UNCHANGED <<inputVars, pc, exitCode, error, loadVars, targets, buildVars,
                   runs, finished, batch, pending, waiterList, failed,
                   cancelIdx, snapshot, firstFailure>>

\* The futures whose work item a worker thread is running.
Running == {i \in DOMAIN fstate : fstate[i] = "RUNNING"}

\* The run invocations in flight: the helper processes started and not exited.
RunsInFlight == {i \in DOMAIN runs : runs[i].state = "running"}

\* The targets no worker has taken from the queue.
Undispatched == {i \in DOMAIN fstate : fstate[i] \notin {"RUNNING", "FINISHED"}}

\* A worker thread takes the next work item: a cancelled future is skipped
\* (set_running_or_notify_cancel), any other starts to run.
Dequeue ==
    /\ queue # <<>>
    /\ Cardinality(Running) < WorkerCount
    /\ LET i == Head(queue)
       IN  fstate' = [fstate EXCEPT ![i] = IF fstate[i] = "CANCELLED"
                                           THEN "CANCELLED_AND_NOTIFIED"
                                           ELSE "RUNNING"]
    /\ queue' = Tail(queue)
    /\ UNCHANGED <<inputVars, pc, exitCode, error, loadVars, targets, buildVars,
                   runs, submitIdx, finished, batch, pending, waiterList, failed,
                   cancelIdx, snapshot, firstFailure>>

\* Future.set_result / set_exception with as_completed's waiter installed: the
\* future is added to waiter.finished_futures.
Notify(i) ==
    IF pc = "as_completed"
    THEN waiterList' = Append(waiterList, i)
    ELSE UNCHANGED waiterList

\* The history of the first failure.
NoteFailure(i) ==
    IF firstFailure = <<>>
    THEN firstFailure' = <<[idx |-> i, undispatched |-> Undispatched]>>
    ELSE UNCHANGED firstFailure

\* execute(target) to the start of the helper process: run_helper spawns the
\* run, or fails to and raises, which finishes the future.
RunSpawn ==
    /\ \E i \in Running :
          LET merged == MergeEnv(baseEnv, targets[i].environment)
              env == RunEnv(merged.env, targets[i])
          IN  /\ runs[i].state = "none"
              /\ baseEnv' = merged.base
              /\ \/ /\ runs' = [runs EXCEPT ![i] =
                           Invocation(i, BuildKey(targets[i]), RunLog(targets[i]),
                                      env, "running", 0)]
                    /\ UNCHANGED <<fstate, waiterList, firstFailure>>
                 \/ /\ runs' = [runs EXCEPT ![i] =
                           Invocation(i, BuildKey(targets[i]), RunLog(targets[i]),
                                      env, "spawnfail", 0)]
                    /\ fstate' = [fstate EXCEPT ![i] = "FINISHED"]
                    /\ Notify(i)
                    /\ NoteFailure(i)
    /\ UNCHANGED <<argVars, helperVars, pc, exitCode, error, loadVars, targets, buildVars,
                   submitIdx, queue, finished, batch, pending, failed,
                   cancelIdx, snapshot>>

\* The run's helper process exits: run_helper returns or raises, execute with
\* it, and the future is finished with the result or the exception.
RunExit ==
    /\ \E i \in RunsInFlight, code \in ExitCodes :
          /\ runs' = [runs EXCEPT ![i].state = "exited", ![i].code = code]
          /\ fstate' = [fstate EXCEPT ![i] = "FINISHED"]
          /\ Notify(i)
          /\ IF code # 0 THEN NoteFailure(i) ELSE UNCHANGED firstFailure
    /\ UNCHANGED <<inputVars, pc, exitCode, error, loadVars, targets, buildVars,
                   submitIdx, queue, finished, batch, pending, failed,
                   cancelIdx, snapshot>>

\* The output of a run's helper process is no text: run_helper is left by
\* UnicodeDecodeError without waiting for the process, and the future is
\* finished with the exception.
RunDecodeError ==
    /\ \E i \in RunsInFlight :
          /\ runs' = [runs EXCEPT ![i].state = "abandoned"]
          /\ fstate' = [fstate EXCEPT ![i] = "FINISHED"]
          /\ Notify(i)
          /\ NoteFailure(i)
    /\ UNCHANGED <<inputVars, pc, exitCode, error, loadVars, targets, buildVars,
                   submitIdx, queue, finished, batch, pending, failed,
                   cancelIdx, snapshot>>

\* The futures that are done: FINISHED or CANCELLED_AND_NOTIFIED.
Done == {i \in DOMAIN fstate : fstate[i] \in {"FINISHED", "CANCELLED_AND_NOTIFIED"}}

\* as_completed, to its first yield: with every future locked, `finished` is
\* the set of the futures already done, `pending` the rest, and the waiter is
\* installed.
AsCompleted ==
    /\ pc = "submit"
    /\ submitIdx > Len(targets)
    /\ finished' = Done
    /\ pending' = DOMAIN fstate \ Done
    /\ waiterList' = <<>>
    /\ batch' = <<>>
    /\ snapshot' = <<Done>>
    /\ pc' = "as_completed"
    /\ UNCHANGED <<inputVars, exitCode, error, loadVars, targets, buildVars,
                   runs, submitIdx, fstate, queue, failed, cancelIdx,
                   firstFailure>>

\* A future.result() whose run_helper raises for no exit status: a run that
\* exited with a non-zero status counts as a result.
ResultOfAnyExitMutant(i) ==
    IF fstate[i] # "FINISHED" THEN [kind |-> "cancelled", code |-> 0]
    ELSE IF runs[i].state = "spawnfail" THEN HelperNotExecuted.cause
    ELSE IF runs[i].state = "abandoned" THEN DecodeError.cause
    ELSE NoCause

\* future.result() of a done future: the cause of its exception, NoCause for
\* a result.  A cancelled future raises CancelledError.
ResultOf(i) ==
    IF fstate[i] # "FINISHED" THEN [kind |-> "cancelled", code |-> 0]
    ELSE IF runs[i].state = "spawnfail" THEN HelperNotExecuted.cause
    ELSE IF runs[i].state = "abandoned" THEN DecodeError.cause
    ELSE IF runs[i].code # 0 THEN HelperFailed(runs[i].code).cause
    ELSE NoCause

\* The body of the loop over as_completed for the future yielded: a result is
\* logged and the loop goes on; an exception enters the except clause.
Body(i) ==
    IF ResultOf(i) = NoCause
    THEN UNCHANGED <<pc, failed, cancelIdx>>
    ELSE /\ pc' = "cancel"
         /\ failed' = i
         /\ cancelIdx' = 1

\* `finished.reverse()`
RECURSIVE Reverse(_)
Reverse(s) == IF s = <<>> THEN <<>> ELSE Append(Reverse(Tail(s)), Head(s))

\* An as_completed without its `finished.reverse()`.
NextBatchMutant(done) == done

\* What as_completed makes of waiter.finished_futures, which is in finishing
\* order: the list that _yield_finished_futures pops from its end.
NextBatch(done) == Reverse(done)

\* _yield_finished_futures over the first `finished`, a list made of a set:
\* any of its futures is the next.
YieldFinished ==
    /\ pc = "as_completed"
    /\ finished # {}
    /\ \E i \in finished :
          /\ finished' = finished \ {i}
          /\ Body(i)
    /\ UNCHANGED <<inputVars, exitCode, error, loadVars, targets, buildVars,
                   runs, submitIdx, fstate, queue, batch, pending, waiterList,
                   snapshot, firstFailure>>

\* as_completed's wait for the waiter's event: the futures finished since are
\* taken from the waiter.
WaitBatch ==
    /\ pc = "as_completed"
    /\ finished = {}
    /\ batch = <<>>
    /\ pending # {}
    /\ waiterList # <<>>
    /\ batch' = NextBatch(waiterList)
    /\ waiterList' = <<>>
    /\ UNCHANGED <<inputVars, pc, exitCode, error, loadVars, targets, buildVars,
                   runs, submitIdx, fstate, queue, finished, pending, failed,
                   cancelIdx, snapshot, firstFailure>>

\* _yield_finished_futures over a later batch: its last future is the next.
YieldBatch ==
    /\ pc = "as_completed"
    /\ finished = {}
    /\ batch # <<>>
    /\ LET i == batch[Len(batch)]
       IN  /\ batch' = SubSeq(batch, 1, Len(batch) - 1)
           /\ pending' = pending \ {i}
           /\ Body(i)
    /\ UNCHANGED <<inputVars, exitCode, error, loadVars, targets, buildVars,
                   runs, submitIdx, fstate, queue, finished, waiterList,
                   snapshot, firstFailure>>

\* as_completed is exhausted: the loop ends and the with block is left.
LoopEnd ==
    /\ pc = "as_completed"
    /\ finished = {}
    /\ batch = <<>>
    /\ pending = {}
    /\ pc' = "shutdown"
    /\ UNCHANGED <<inputVars, exitCode, error, loadVars, targets, buildVars,
                   runVars>>

\* Future.cancel(): a pending future becomes cancelled, any other is left.
CancelFuture(state) == IF state = "PENDING" THEN "CANCELLED" ELSE state

\* One iteration of `for pending in future_map: pending.cancel()`.
Cancel ==
    /\ pc = "cancel"
    /\ cancelIdx <= Len(targets)
    /\ fstate' = [fstate EXCEPT ![cancelIdx] = CancelFuture(fstate[cancelIdx])]
    /\ cancelIdx' = cancelIdx + 1
    /\ UNCHANGED <<inputVars, pc, exitCode, error, loadVars, targets, buildVars,
                   runs, submitIdx, queue, finished, batch, pending, waiterList,
                   failed, snapshot, firstFailure>>

\* `raise OrchestratorError(f"Target {target.name} failed: {exc}")`: the with
\* block is left with the exception.
RaiseFailed ==
    /\ pc = "cancel"
    /\ cancelIdx > Len(targets)
    /\ error' = Exc("OrchestratorError", "run", <<>>, {}, targets[failed].name,
                    ResultOf(failed))
    /\ pc' = "shutdown"
    /\ UNCHANGED <<inputVars, exitCode, loadVars, targets, buildVars, runVars>>

\* The with block's exit, executor.shutdown(wait=True): the worker threads are
\* joined, which end once the queue is drained and no work item runs.  Then
\* run_targets returns (main returns 0) or raises.
Shutdown ==
    /\ pc = "shutdown"
    /\ queue = <<>>
    /\ Running = {}
    /\ IF error = NoError
       THEN pc' = "done" /\ exitCode' = 0 /\ UNCHANGED error
       ELSE Raise(error)
    /\ UNCHANGED <<inputVars, loadVars, targets, buildVars, runVars>>

Interrupted == Exc("KeyboardInterrupt", "interrupt", <<>>, {}, "", NoCause)

\* The user interrupts the driver while main is in its try block:
\* KeyboardInterrupt is raised in the main thread.  Inside the with block of
\* run_targets it leaves the loop, whose locals are gone, and enters the with
\* block's exit, which joins the workers without cancelling a future; raised
\* in that join it leaves run_targets at once.  Anywhere else it reaches
\* main's except clause directly.
Interrupt ==
    /\ pc \in {"load_targets", "load_loop", "build", "build_wait", "submit",
               "as_completed", "cancel", "shutdown"}
    /\ IF pc \in {"submit", "as_completed", "cancel"}
       THEN /\ error' = Interrupted
            /\ pc' = "shutdown"
            /\ finished' = {}
            /\ batch' = <<>>
            /\ pending' = {}
            /\ waiterList' = <<>>
            /\ failed' = 0
            /\ cancelIdx' = 0
            /\ UNCHANGED <<exitCode, runs, submitIdx, fstate, queue, snapshot,
                           firstFailure>>
       ELSE Raise(Interrupted) /\ UNCHANGED runVars
    /\ UNCHANGED <<inputVars, loadVars, targets, buildVars>>

Next ==
    \/ Start
    \/ LoadOpen
    \/ LoadEntry
    \/ LoadFinish
    \/ BuildNext
    \/ BuildExit
    \/ BuildDecodeError
    \/ BuildDone
    \/ Submit
    \/ Dequeue
    \/ RunSpawn
    \/ RunExit
    \/ RunDecodeError
    \/ AsCompleted
    \/ YieldFinished
    \/ WaitBatch
    \/ YieldBatch
    \/ LoopEnd
    \/ Cancel
    \/ RaiseFailed
    \/ Shutdown
    \/ Interrupt

Spec == Init /\ [][Next]_vars

\* load_targets alone, on LoadDocuments: main is at its call of load_targets.
InitLoad ==
    /\ helperExists = TRUE
    /\ config \in LoadDocuments
    /\ maxParallel = 1
    /\ baseEnv = MainBaseEnv
    /\ pc = "load_targets"
    /\ exitCode = -1
    /\ error = NoError
    /\ loadIdx = 0
    /\ parsed = <<>>
    /\ errors = <<>>
    /\ targets = <<>>
    /\ buildIdx = 0
    /\ built = {}
    /\ builds = <<>>
    /\ runs = <<>>
    /\ submitIdx = 0
    /\ fstate = <<>>
    /\ queue = <<>>
    /\ finished = {}
    /\ batch = <<>>
    /\ pending = {}
    /\ waiterList = <<>>
    /\ failed = 0
    /\ cancelIdx = 0
    /\ snapshot = <<>>
    /\ firstFailure = <<>>
    /\ HelperIdle

\* main on EnvDocuments, in each process environment of BaseEnvs, with
\* --max-parallel 2.
InitEnv ==
    /\ helperExists = TRUE
    /\ config \in EnvDocuments
    /\ maxParallel = 2
    /\ baseEnv \in BaseEnvs
    /\ pc = "main"
    /\ exitCode = -1
    /\ error = NoError
    /\ loadIdx = 0
    /\ parsed = <<>>
    /\ errors = <<>>
    /\ targets = <<>>
    /\ buildIdx = 0
    /\ built = {}
    /\ builds = <<>>
    /\ runs = <<>>
    /\ submitIdx = 0
    /\ fstate = <<>>
    /\ queue = <<>>
    /\ finished = {}
    /\ batch = <<>>
    /\ pending = {}
    /\ waiterList = <<>>
    /\ failed = 0
    /\ cancelIdx = 0
    /\ snapshot = <<>>
    /\ firstFailure = <<>>
    /\ HelperIdle

SpecEnv == InitEnv /\ [][Next]_vars

NextLoad ==
    \/ LoadOpen
    \/ LoadEntry
    \/ LoadFinish

SpecLoad == InitLoad /\ [][NextLoad]_vars

\* ------------------------------------------------------- run_helper

\* The most lines a helper process emits.
MaxLines == 3

\* A line of bytes that are no text in the pipe's encoding (text=True decodes
\* the output with the locale's encoding and strict errors).
Undecodable == "<bytes>"

\* The lines of a helper process: two texts and the undecodable line.
LineTexts == {"x", "y", Undecodable}

\* What the log file holds when run_helper is called: nothing, or a line of an
\* earlier invocation (the file is opened to append).
EarlierLogs == {<<>>, <<FailureLine(2)>>}

\* One invocation of run_helper, followed line by line, for every output of at
\* most MaxLines lines.
InitHelper ==
    /\ helperExists = TRUE
    /\ config = Document("list", <<>>)
    /\ maxParallel = 1
    /\ baseEnv = MainBaseEnv
    /\ pc = "build"
    /\ exitCode = -1
    /\ error = NoError
    /\ loadIdx = 0
    /\ parsed = <<>>
    /\ errors = <<>>
    /\ targets = <<>>
    /\ buildIdx = 0
    /\ built = {}
    /\ builds = <<>>
    /\ runs = <<>>
    /\ submitIdx = 0
    /\ fstate = <<>>
    /\ queue = <<>>
    /\ finished = {}
    /\ batch = <<>>
    /\ pending = {}
    /\ waiterList = <<>>
    /\ failed = 0
    /\ cancelIdx = 0
    /\ snapshot = <<>>
    /\ firstFailure = <<>>
    /\ hpc = "mkdir"
    /\ handle = "none"
    /\ logBefore \in EarlierLogs
    /\ logContent = logBefore
    /\ script \in SeqUpTo(LineTexts, MaxLines)
    /\ proc = "none"
    /\ procCode = 0
    /\ emitted = 0
    /\ readN = 0
    /\ cur = NoLine
    /\ herror = NoError

\* run_helper leaves with an exception: its with block closes an open log file.
HelperRaise(exc) ==
    /\ herror' = exc
    /\ hpc' = "raised"
    /\ handle' = IF handle = "open" THEN "closed" ELSE handle

\* `log_path.parent.mkdir(parents=True, exist_ok=True)`, outside the try: its
\* OSError leaves run_helper as it is.
HelperMkdir ==
    /\ hpc = "mkdir"
    /\ \/ hpc' = "open" /\ UNCHANGED <<handle, herror>>
       \/ HelperRaise(Exc("OSError", "mkdir", <<>>, {}, "", NoCause))
    /\ UNCHANGED <<mainVars, logBefore, logContent, script, proc, procCode,
                   emitted, readN, cur>>

\* `log_path.open("a")`: the file is open to append, or OSError is raised and
\* becomes the OrchestratorError "Failed to execute helper".
HelperOpen ==
    /\ hpc = "open"
    /\ \/ hpc' = "header" /\ handle' = "open" /\ UNCHANGED herror
       \/ HelperRaise(HelperNotExecuted)
    /\ UNCHANGED <<mainVars, logBefore, logContent, script, proc, procCode,
                   emitted, readN, cur>>

\* `logfile.write(line); logfile.flush()` on a file opened to append.
WriteLine(content, line) == Append(content, line)

\* The header is written and flushed.
HelperHeader ==
    /\ hpc = "header"
    /\ logContent' = WriteLine(logContent, HeaderLine)
    /\ hpc' = "popen"
    /\ UNCHANGED <<mainVars, handle, logBefore, script, proc, procCode, emitted,
                   readN, cur, herror>>

\* subprocess.Popen: the helper process starts, or OSError is raised and
\* becomes the OrchestratorError "Failed to execute helper".
HelperPopen ==
    /\ hpc = "popen"
    /\ \/ /\ proc' = "running"
          /\ hpc' = "read"
          /\ UNCHANGED <<handle, herror>>
       \/ HelperRaise(HelperNotExecuted) /\ UNCHANGED proc
    /\ UNCHANGED <<mainVars, logBefore, logContent, script, procCode, emitted,
                   readN, cur>>

\* The helper process writes its next line to the pipe.
ProcEmit ==
    /\ proc = "running"
    /\ emitted < Len(script)
    /\ emitted' = emitted + 1
    /\ UNCHANGED <<mainVars, hpc, handle, logBefore, logContent, script, proc,
                   procCode, readN, cur, herror>>

\* The helper process exits, its output emitted: the pipe is at its end once
\* the lines in it are read.
ProcExit ==
    /\ proc = "running"
    /\ emitted = Len(script)
    /\ proc' = "exited"
    /\ procCode' \in ExitCodes
    /\ UNCHANGED <<mainVars, hpc, handle, logBefore, logContent, script,
                   emitted, readN, cur, herror>>

\* `for line in process.stdout`: the text layer decodes what is in the pipe.
\* If that is text, the next line is the loop's `line`; if not, the read raises
\* UnicodeDecodeError, which is no OSError and leaves run_helper as it is.
HelperRead ==
    /\ hpc = "read"
    /\ readN < emitted
    /\ IF \E k \in (readN + 1)..emitted : script[k] = Undecodable
       THEN /\ HelperRaise(Exc("UnicodeDecodeError", "decode", <<>>, {}, "", NoCause))
            /\ UNCHANGED <<cur, readN>>
       ELSE /\ cur' = OutputLine(script[readN + 1])
            /\ readN' = readN + 1
            /\ hpc' = "write"
            /\ UNCHANGED <<handle, herror>>
    /\ UNCHANGED <<mainVars, logBefore, logContent, script, proc, procCode,
                   emitted>>

\* The body of the loop: the line is written to the log and flushed.
HelperWrite ==
    /\ hpc = "write"
    /\ logContent' = WriteLine(logContent, cur)
    /\ hpc' = "read"
    /\ UNCHANGED <<mainVars, handle, logBefore, script, proc, procCode, emitted,
                   readN, cur, herror>>

\* The loop ends at the end of the pipe.
HelperEof ==
    /\ hpc = "read"
    /\ readN = emitted
    /\ proc = "exited"
    /\ hpc' = "wait"
    /\ UNCHANGED <<mainVars, handle, logBefore, logContent, script, proc,
                   procCode, emitted, readN, cur, herror>>

\* `returncode = process.wait()` and what follows: with 0 run_helper returns,
\* otherwise it writes the failure line and raises; either way the with block
\* closes the log file.
HelperWait ==
    /\ hpc = "wait"
    /\ IF procCode = 0
       THEN /\ hpc' = "returned"
            /\ handle' = "closed"
            /\ UNCHANGED <<herror, logContent>>
       ELSE /\ logContent' = WriteLine(logContent, FailureLine(procCode))
            /\ HelperRaise(HelperFailed(procCode))
    /\ UNCHANGED <<mainVars, logBefore, script, proc, procCode, emitted, readN,
                   cur>>

NextHelper ==
    \/ HelperMkdir
    \/ HelperOpen
    \/ HelperHeader
    \/ HelperPopen
    \/ ProcEmit
    \/ ProcExit
    \/ HelperRead
    \/ HelperWrite
    \/ HelperEof
    \/ HelperWait

SpecHelper == InitHelper /\ [][NextHelper]_vars

TypeOK ==
    /\ pc \in {"main", "load_targets", "load_loop", "build", "build_wait",
               "submit", "as_completed", "cancel", "shutdown", "done",
               "uncaught"}
    /\ exitCode \in {-1, 0, 1, 130}

\* ------------------------------------------------------- the claims

\* The build invocations in flight.
BuildsInFlight == {k \in DOMAIN builds : builds[k].state = "running"}

\* The run invocations started: a helper process was spawned for the target.
RunsStarted ==
    {i \in DOMAIN runs : runs[i].state \in {"running", "exited", "abandoned"}}

\* The runs that failed: a non-zero exit, or a helper that was not executed.
RunsFailed ==
    {i \in DOMAIN runs : \/ runs[i].state \in {"spawnfail", "abandoned"}
                         \/ runs[i].state = "exited" /\ runs[i].code # 0}

\* build_projects has returned.
BuildPhaseOver == pc \in {"submit", "as_completed", "cancel", "shutdown"}
                  \/ (pc = "done" /\ runs # <<>>)

\* The (project, sanitizer) pairs of the target list.
KeysOf(ts) == {<<ts[i].project, ts[i].sanitizer>> : i \in DOMAIN ts}

\* C1: the build command is never invoked twice for one (project, sanitizer)
\* pair nor for a pair no target has, and once build_projects has returned,
\* every build having succeeded, it was invoked exactly once for each distinct
\* pair of the target list, however many targets share it.
C1_BuildOncePerKey ==
    /\ \A k \in DOMAIN builds : builds[k].key \in KeysOf(targets)
    /\ \A k1, k2 \in DOMAIN builds : builds[k1].key = builds[k2].key => k1 = k2
    /\ BuildPhaseOver =>
          \A key \in KeysOf(targets) :
              Cardinality({k \in DOMAIN builds : builds[k].key = key}) = 1

\* Three targets, two of them sharing a pair, were built with two invocations.
C1_Witness ==
    /\ BuildPhaseOver
    /\ Len(targets) = 3
    /\ Len(builds) = 2

C3_NoStartAfterFailure ==
    (firstFailure # <<>> /\ runs[firstFailure[1].idx].state = "exited") =>
        \A i \in firstFailure[1].undispatched : runs[i].state = "none"

\* run_targets has raised its error for a failed target.
RunRaised == pc = "done" /\ error.kind = "run"

NameOf(i) == targets[i].name

\* What the run invocation of target i ended with.
CauseOf(i) ==
    IF runs[i].state = "spawnfail" THEN [kind |-> "spawn", code |-> 0]
    ELSE IF runs[i].state = "abandoned" THEN [kind |-> "decode", code |-> 0]
    ELSE [kind |-> "exit", code |-> runs[i].code]

\* C4 as stated: when a run has exited with a non-zero status, run_targets
\* does not return success, and the error it raises names the first target to
\* fail, with its exit code (here: when every helper process could be spawned
\* and its output read).
C4_NamesFirstToFail ==
    /\ (pc = "done" /\ RunsFailed # {}) => exitCode # 0
    /\ (RunRaised /\ \A i \in DOMAIN runs :
                        runs[i].state \notin {"spawnfail", "abandoned"}) =>
          /\ error.target = NameOf(firstFailure[1].idx)
          /\ error.cause = CauseOf(firstFailure[1].idx)

\* C4 as amended: when a run has failed, run_targets does not return success;
\* the error it raises names one target, whose run failed (never a cancelled
\* or successful one), with that run's exit code; and that target is the first
\* to fail unless it and the first to fail had both finished before
\* as_completed was called.
C4_NamesFirstEncountered ==
    /\ (pc = "done" /\ RunsFailed # {}) => exitCode # 0
    /\ RunRaised =>
          \E i \in RunsFailed :
              /\ error.target = NameOf(i)
              /\ error.cause = CauseOf(i)
              /\ fstate[i] = "FINISHED"
              /\ \/ i = firstFailure[1].idx
                 \/ {i, firstFailure[1].idx} \subseteq snapshot[1]

\* An error naming the second of two failed targets, the first having failed
\* with another exit code; and one naming a target that failed after the
\* waiter was installed, a later one having failed too.
C4_Witness ==
    /\ RunRaised
    /\ Cardinality(RunsFailed) >= 2
    /\ error.cause.kind = "exit"
    /\ firstFailure[1].idx \notin snapshot[1]
    /\ \E i \in RunsFailed : CauseOf(i) # error.cause

\* C5: no run invocation is started before every build invocation has exited
\* with 0 (one for the key of every target), and at most one build invocation
\* is in flight.
C5_BuildsBeforeRuns ==
    /\ Cardinality(BuildsInFlight) <= 1
    /\ (\E i \in DOMAIN runs : runs[i].state # "none") =>
          /\ pc \notin {"build", "build_wait"}
          /\ \A k \in DOMAIN builds :
                builds[k].state = "exited" /\ builds[k].code = 0
          /\ \A key \in KeysOf(targets) :
                \E k \in DOMAIN builds : builds[k].key = key

\* Two runs in flight after two builds.
C5_Witness ==
    /\ Len(builds) = 2
    /\ Cardinality(RunsInFlight) = 2

\* Loading the configuration has failed.
LoadFailed ==
    /\ pc \in {"done", "uncaught"}
    /\ error.kind \in {"notfound", "yaml", "root", "notargets", "entry",
                       "invalid", "noenabled", "duplicate"}

\* C6: when loading the configuration fails, no build and no run invocation
\* of run_helper is made, so no helper process is spawned and no log written.
C6_NoSpawnOnLoadFailure ==
    LoadFailed => builds = <<>> /\ RunsStarted = {} /\ runs = <<>>

\* Loading failed on duplicate names, after three entries were parsed.
C6_Witness ==
    /\ LoadFailed
    /\ error.kind = "duplicate"
    /\ Len(parsed) = 3

\* load_targets has returned or raised on a document with a `targets` list.
LoadEnded == pc \in {"done", "uncaught", "build"} /\ config.kind = "list"

\* The required keys that a mapping entry lacks or holds empty.
RequiredMissing(e) ==
    {f \in {"name", "project", "fuzz_target"} : e[f] = <<>> \/ e[f] = <<"">>}

\* The positions of the entries that fail to parse or validate.
FailingEntries ==
    {i \in DOMAIN config.targets : ParseEntry(config.targets[i]).tag # "ok"}

Range(s) == {s[k] : k \in DOMAIN s}

\* C7: when entries fail to parse or validate, load_targets fails with one
\* error holding one item per failing entry, each with the entry's 1-based
\* position and, for an entry missing required fields, all of their names.
C7_EveryFailingEntryReported ==
    (LoadEnded /\ FailingEntries # {}) =>
        /\ error.type = "OrchestratorError"
        /\ error.kind = "invalid"
        /\ Len(error.items) = Cardinality(FailingEntries)
        /\ {item.index : item \in Range(error.items)} = FailingEntries
        /\ \A item \in Range(error.items) :
              LET e == config.targets[item.index]
              IN  (e.mapping /\ RequiredMissing(e) # {}) =>
                      /\ item.msg.kind = "missing"
                      /\ Range(item.msg.fields) = RequiredMissing(e)

\* The entry is enabled: `enabled` is absent or true.
EntryEnabled(e) == e.enabled = <<>> \/ e.enabled[1] = TRUE

\* The names that two or more enabled entries share.
SharedNames ==
    {config.targets[i].name[1] :
        i \in {j \in DOMAIN config.targets :
                 /\ EntryEnabled(config.targets[j])
                 /\ \E k \in DOMAIN config.targets :
                       /\ k # j
                       /\ EntryEnabled(config.targets[k])
                       /\ config.targets[k].name = config.targets[j].name}}

\* C8: when every entry is valid and enabled entries share a name,
\* load_targets fails with an error listing every shared name; and a list it
\* returns has pairwise distinct names.
C8_DuplicateNamesRejected ==
    /\ (LoadEnded /\ FailingEntries = {} /\ SharedNames # {}) =>
          /\ pc = "done"
          /\ error.kind = "duplicate"
          /\ error.names = SharedNames
    /\ pc = "build" =>
          \A i, j \in DOMAIN targets : targets[i].name = targets[j].name => i = j

\* Loading failed naming two duplicated names.
C8_Witness ==
    /\ LoadEnded
    /\ error.kind = "duplicate"
    /\ Cardinality(error.names) = 2

\* C9: when every entry is valid and none is enabled, load_targets fails with
\* the no-enabled-targets error; and a list it returns is non-empty and holds
\* enabled targets only.
C9_NoEnabledRejected ==
    /\ (/\ LoadEnded
        /\ FailingEntries = {}
        /\ \A i \in DOMAIN config.targets : ~EntryEnabled(config.targets[i])) =>
          pc = "done" /\ error.kind = "noenabled"
    /\ pc = "build" =>
          /\ targets # <<>>
          /\ \A i \in DOMAIN targets : targets[i].enabled = TRUE

\* Loading failed because two valid entries were both disabled.
C9_Witness ==
    /\ LoadEnded
    /\ error.kind = "noenabled"
    /\ Len(config.targets) >= 2

\* The max_run_seconds an entry asks for: its own if the key is present,
\* else that of the first of its binaries if present, else 900.
AskedSeconds(e) ==
    IF e.max_run_seconds # <<>> THEN e.max_run_seconds[1]
    ELSE IF e.binaries # <<>> /\ e.binaries[1].max_run_seconds # <<>>
         THEN e.binaries[1].max_run_seconds[1]
         ELSE IntV(900)

\* C10: an entry that load_targets' loop has processed, with its required
\* fields, a mapping environment and an integer for the max_run_seconds it
\* asks for, is in `errors` for its max_run_seconds if that is <= 0, and
\* otherwise in `parsed` with that max_run_seconds; and every target of a
\* list returned has max_run_seconds > 0.
C10_RunSecondsDerived ==
    /\ (pc \in {"load_loop", "done", "build"} /\ config.kind = "list") =>
          \A i \in 1..(loadIdx - 1) :
              LET e == config.targets[i]
                  before == Cardinality({k \in DOMAIN errors : errors[k].index < i})
              IN  (/\ e.mapping
                   /\ RequiredMissing(e) = {}
                   /\ (e.environment = <<>> \/ e.environment[1].kind = "map")
                   /\ AskedSeconds(e).t = "int") =>
                      IF AskedSeconds(e).v <= 0
                      THEN \E k \in DOMAIN errors :
                              /\ errors[k].index = i
                              /\ errors[k].msg.kind = "max_run_seconds"
                              /\ errors[k].msg.got = AskedSeconds(e).v
                      ELSE /\ i - before \in DOMAIN parsed
                           /\ parsed[i - before].name = e.name[1]
                           /\ parsed[i - before].max_run_seconds = AskedSeconds(e).v
    /\ pc = "build" => \A i \in DOMAIN targets : targets[i].max_run_seconds > 0

\* A target loaded with the max_run_seconds of its first binary.
C10_Witness ==
    /\ pc = "build"
    /\ config.targets[1].max_run_seconds = <<>>
    /\ config.targets[1].binaries # <<>>
    /\ targets[1].max_run_seconds = 30

\* main has returned or was left by an exception it does not catch.
MainEnded == pc \in {"done", "uncaught"}

\* load_targets returned a target list.
LoadSucceeded == targets # <<>>

\* Every build invocation exited with 0 and every key of the list was built.
BuildsSucceeded ==
    /\ \A k \in DOMAIN builds : builds[k].state = "exited" /\ builds[k].code = 0
    /\ KeysOf(targets) \subseteq built

\* Every target was run and every run invocation exited with 0.
RunsSucceeded ==
    /\ runs # <<>>
    /\ \A i \in DOMAIN runs : runs[i].state = "exited" /\ runs[i].code = 0

\* C11: when the driver has ended, its exit status is 130 if the user
\* interrupted it inside main's try block; otherwise it is 0 exactly when
\* helper.py exists, load_targets returned a list, every build invocation and
\* every run invocation succeeded, and 1 in every other case (a configuration
\* failure, a build failure, a run failure).
C11_ExitStatus ==
    MainEnded =>
        IF error.type = "KeyboardInterrupt"
        THEN exitCode = 130
        ELSE /\ exitCode \in {0, 1}
             /\ exitCode = 0 <=>
                   (helperExists /\ LoadSucceeded /\ BuildsSucceeded /\ RunsSucceeded)

\* The driver was interrupted after a run had failed: it exits with 130.
C11_Witness ==
    /\ pc = "done"
    /\ exitCode = 130
    /\ RunsFailed # {}

\* The value execute gives a variable of InjectedVars for target i.
InjectedValue(i, n) ==
    CASE n = "FUZZ_TARGET" -> <<targets[i].fuzz_target>>
      [] n = "FUZZ_PROJECT" -> <<targets[i].project>>
      [] n = "SANITIZER" -> <<targets[i].sanitizer>>
      [] n = "ARTIFACT_DIR" -> <<PathStr(ArtifactDir(targets[i].name))>>

\* The value of a variable for target i before any injection: that of the
\* target's environment if it sets the variable, else that of the base
\* environment.
OverriddenValue(i, n) ==
    IF targets[i].environment[n] # <<>> THEN targets[i].environment[n] ELSE baseEnv[n]

\* C12: in the environment of every run invocation each injected variable
\* (FUZZ_TARGET, FUZZ_PROJECT, SANITIZER, ARTIFACT_DIR) has the value the
\* scheduler injects, and every other variable has the value of the target's
\* environment if that sets it, else the value of the base environment; in the
\* environment of every build invocation an injected variable is set only as
\* the target's environment or the base environment sets it.
C12_RunEnvironment ==
    /\ \A i \in DOMAIN runs :
          runs[i].state # "none" =>
              \A n \in EnvVars :
                  runs[i].env[n] = IF n \in InjectedVars
                                   THEN InjectedValue(i, n)
                                   ELSE OverriddenValue(i, n)
    /\ \A k \in DOMAIN builds :
          \A n \in InjectedVars :
              builds[k].env[n] = OverriddenValue(builds[k].idx, n)

\* The run of target a, whose environment sets SANITIZER and FOO, in a base
\* environment that sets both: its SANITIZER is the injected one and its FOO
\* the target's, while the build had the target's SANITIZER and no FUZZ_TARGET.
C12_Witness ==
    \E i \in DOMAIN runs :
        /\ runs[i].state = "running"
        /\ targets[i].environment["SANITIZER"] = <<"a">>
        /\ baseEnv["SANITIZER"] = <<"base">>
        /\ runs[i].env["SANITIZER"] = <<"address">>
        /\ runs[i].env["FOO"] = <<"a">>
        /\ runs[i].env["BAR"] = <<>>
        /\ runs[i].env["ARTIFACT_DIR"] = <<"artifacts/a">>
        /\ \E k \in DOMAIN builds :
              /\ builds[k].idx = i
              /\ builds[k].env["SANITIZER"] = <<"a">>
              /\ builds[k].env["FUZZ_TARGET"] = <<>>

\* The values a variable may have in the environment of target i's run: what
\* the base environment, the target's own environment and the injection for
\* that target give it.
OwnValues(i, n) ==
    {baseEnv[n], targets[i].environment[n]}
        \cup (IF n \in InjectedVars THEN {InjectedValue(i, n)} ELSE {})

\* C13: no step of the driver changes the base environment mapping or the
\* environment mapping of a target of the list, whichever worker takes it and
\* in whatever order; and the environment of a run holds no value that comes
\* from another target's environment or injection.
C13_EnvUnchanged ==
    /\ [][/\ baseEnv' = baseEnv
          /\ targets # <<>> =>
                /\ DOMAIN targets' = DOMAIN targets
                /\ \A i \in DOMAIN targets :
                      targets'[i].environment = targets[i].environment]_vars
    /\ [](\A i \in DOMAIN runs :
             runs[i].state # "none" =>
                 \A n \in EnvVars : runs[i].env[n] \in OwnValues(i, n))

\* Two runs are in flight with environments that differ from each other, the
\* first being that of a target whose environment sets a variable the base
\* environment sets too; the base environment is as main made it.
C13_Witness ==
    \E i, j \in RunsInFlight :
        /\ i # j
        /\ runs[i].env # runs[j].env
        /\ targets[i].environment["FOO"] = <<"a">>
        /\ runs[i].env["FOO"] = <<"a">>
        /\ runs[j].env["FOO"] = <<"base">>
        /\ baseEnv["FOO"] = <<"base">>

\* C14: no two run invocations in flight at the same time have the same log
\* file; the log file of every run invocation is run.log in the directory of
\* its target, and it is the log file of no build invocation.
C14_RunLogsApart ==
    /\ \A i, j \in RunsInFlight : i # j => runs[i].log # runs[j].log
    /\ \A i \in DOMAIN runs :
          runs[i].state # "none" =>
              /\ runs[i].log = Append(ArtifactDir(targets[i].name), "run.log")
              /\ \A k \in DOMAIN builds : builds[k].log # runs[i].log

\* The lines appended to the log file since run_helper was called.
Appended == SubSeq(logContent, Len(logBefore) + 1, Len(logContent))

\* The first n lines the helper process emits, as lines of the log.
OutputLines(n) == [k \in 1..n |-> OutputLine(script[k])]

\* run_helper has opened the log file and written its header.
HeaderWritten == handle # "none" /\ hpc # "header"

\* The lines read from the pipe whose write to the log is done.
LinesLogged == IF hpc = "write" THEN readN - 1 ELSE readN

\* run_helper has returned or raised.
HelperEnded == hpc \in {"returned", "raised"}

\* C15: the log file keeps its earlier lines, and once the header is written
\* the lines appended are the header and then exactly the lines read from the
\* process, in the order emitted, each logged before the next is read; when
\* run_helper ends, that is every line the process has emitted, and nothing
\* else.
C15_HeaderThenOutput ==
    /\ SubSeq(logContent, 1, Len(logBefore)) = logBefore
    /\ HeaderWritten => Appended = <<HeaderLine>> \o OutputLines(LinesLogged)
    /\ (HelperEnded /\ proc # "none") => LinesLogged = emitted

\* C19: when run_helper has ended and the process exited with a non-zero
\* status, the log got the header, every output line and then the failure line
\* with that status, and the error raised carries the status; when the process
\* could not be spawned, an error was raised and the log got the header only;
\* and in every case the log file is not open once run_helper has ended.
C19_FailureLogged ==
    /\ (HelperEnded /\ proc = "exited" /\ procCode # 0) =>
          /\ Appended = <<HeaderLine>> \o OutputLines(Len(script))
                            \o <<FailureLine(procCode)>>
          /\ herror = HelperFailed(procCode)
    /\ (HelperEnded /\ HeaderWritten /\ proc = "none") =>
          /\ Appended = <<HeaderLine>>
          /\ herror = HelperNotExecuted
    /\ HelperEnded => handle # "open"

\* The build invocations that failed: the helper was not executed, exited with
\* a non-zero status, or its output left run_helper with an exception.
BuildsFailed ==
    {k \in DOMAIN builds : \/ builds[k].state \in {"spawnfail", "abandoned"}
                           \/ builds[k].state = "exited" /\ builds[k].code # 0}

\* C16: a failed build invocation is the last one, its key is not marked
\* built, no run invocation and no future exists, and main has ended with the
\* build's error: the failure was raised in the step in which it happened.
C16_BuildFailureStops ==
    \A k \in BuildsFailed :
        /\ k = Len(builds)
        /\ builds[k].key \notin built
        /\ runs = <<>>
        /\ fstate = <<>>
        /\ queue = <<>>
        /\ MainEnded
        /\ exitCode = 1
        /\ error.kind = "helper"

\* The second build of a list of three targets exited with a non-zero status,
\* the first having succeeded: the target after it was never looked at.
C16_Witness ==
    /\ Len(targets) = 3
    /\ Len(builds) = 2
    /\ builds[1].state = "exited"
    /\ builds[1].code = 0
    /\ builds[2].state = "exited"
    /\ builds[2].code = 2
    /\ builds[2].idx = 2
    /\ buildIdx = 2
    /\ pc = "done"

\* The runs a worker had taken and not finished when the first run failed:
\* every target that was not undispatched then, but the one that failed and
\* those whose run had ended before, which ended with success.
TakenAtFirstFailure ==
    {i \in DOMAIN runs :
        /\ i # firstFailure[1].idx
        /\ i \notin firstFailure[1].undispatched}

\* C17: after the first run failure, every run a worker had taken by then
\* goes on until its process exits (its invocation of run_helper is not left
\* with the process running, so its output is logged to the end) and has done
\* so when run_targets raises; and the error run_targets raises is that of the
\* failure it met first, whatever the results of those runs.
C17_InFlightRunsFinish ==
    firstFailure # <<>> =>
        /\ \A i \in TakenAtFirstFailure : runs[i].state # "abandoned"
        /\ RunRaised =>
              /\ \A i \in TakenAtFirstFailure : runs[i].state \in {"exited", "spawnfail"}
              /\ failed \in RunsFailed
              /\ error.target = NameOf(failed)
              /\ error.cause = ResultOf(failed)

\* The first target of the list with the given build key.
FirstWithKey(key) ==
    CHOOSE i \in DOMAIN targets :
        /\ BuildKey(targets[i]) = key
        /\ \A j \in DOMAIN targets : BuildKey(targets[j]) = key => i <= j

\* C18: every build invocation is for the first target of the list that has
\* its key: its environment is the base environment overridden by that
\* target's environment, variable by variable, and its log is that target's
\* build.log; no value of a later target's environment is in it.
C18_FirstTargetBuilds ==
    \A k \in DOMAIN builds :
        LET first == FirstWithKey(builds[k].key)
        IN  /\ builds[k].idx = first
            /\ \A n \in EnvVars : builds[k].env[n] = OverriddenValue(first, n)
            /\ builds[k].log = Append(ArtifactDir(targets[first].name), "build.log")

\* Targets a and a/ share a key and were built once: with a's FOO and the base
\* environment's BAR, which a/ overrides.
C18_Witness ==
    /\ BuildPhaseOver
    /\ Len(targets) = 2
    /\ Len(builds) = 1
    /\ targets[1].environment["FOO"] = <<"a">>
    /\ targets[2].environment["BAR"] = <<"a/">>
    /\ builds[1].env["FOO"] = <<"a">>
    /\ builds[1].env["BAR"] = <<"base">>
    /\ builds[1].log = <<"a", "build.log">>

\* The entry is one that from_dict or validate rejects: a mapping that lacks a
\* required field, has an environment that is no mapping, or asks for a
\* max_run_seconds <= 0.
Rejected(e) ==
    /\ e.mapping
    /\ \/ RequiredMissing(e) # {}
       \/ e.environment # <<>> /\ e.environment[1].kind # "map"
       \/ AskedSeconds(e).t = "int" /\ AskedSeconds(e).v <= 0

\* The positions of the rejected entries, enabled or not.
RejectedEntries == {i \in DOMAIN config.targets : Rejected(config.targets[i])}

\* C20: when load_targets has ended on a document with a rejected entry, be
\* it one with `enabled: false`, it has failed with the combined
\* invalid-configuration error, which has an item for every rejected entry
\* (each was validated, whatever its `enabled`), and not with the error for no
\* enabled target or for duplicate names.
C20_DisabledEntriesValidated ==
    (LoadEnded /\ RejectedEntries # {}) =>
        /\ pc = "done"
        /\ error.type = "OrchestratorError"
        /\ error.kind = "invalid"
        /\ RejectedEntries \subseteq {item.index : item \in Range(error.items)}

\* run_targets has returned to main or has raised into it, and main has ended.
RunTargetsEnded == MainEnded /\ runs # <<>>

\* C21: once run_targets has returned or raised, no run invocation is in
\* flight: every helper process started for a run has exited, also when
\* run_targets raised because of a failure.
C21_NoRunInFlightAtExit == RunTargetsEnded => RunsInFlight = {}

\* ------------------------------------------------- run_targets, scheduled

\* The longest target list of the documents the scheduled runs start from.
MaxLiveEntries == 3

\* The entries of those documents, in their order: three enabled targets, the
\* first two of one build key.
LiveEntries ==
    <<Entry(<<"a">>, <<"p1">>, <<"fz1">>, <<>>, <<>>),
      Entry(<<"b">>, <<"p1">>, <<"fz2">>, <<TRUE>>, <<"address">>),
      Entry(<<"c">>, <<"p1">>, <<"fz1">>, <<>>, <<"memory">>)>>

\* The documents: the non-empty lists that begin LiveEntries.
LiveDocuments ==
    {Document("list", SubSeq(LiveEntries, 1, n)) :
        n \in 1..Min(MaxLiveEntries, Len(LiveEntries))}

\* main with helper.py present and any --max-parallel, zero and negative
\* values included.
InitLive ==
    /\ helperExists = TRUE
    /\ config \in LiveDocuments
    /\ maxParallel \in -1..MaxParallelArg
    /\ baseEnv = MainBaseEnv
    /\ pc = "main"
    /\ exitCode = -1
    /\ error = NoError
    /\ loadIdx = 0
    /\ parsed = <<>>
    /\ errors = <<>>
    /\ targets = <<>>
    /\ buildIdx = 0
    /\ built = {}
    /\ builds = <<>>
    /\ runs = <<>>
    /\ submitIdx = 0
    /\ fstate = <<>>
    /\ queue = <<>>
    /\ finished = {}
    /\ batch = <<>>
    /\ pending = {}
    /\ waiterList = <<>>
    /\ failed = 0
    /\ cancelIdx = 0
    /\ snapshot = <<>>
    /\ firstFailure = <<>>
    /\ HelperIdle

\* The steps of the thread that called run_targets: it is never descheduled
\* for ever.
RunTargetsThread ==
    \/ Submit
    \/ AsCompleted
    \/ YieldFinished
    \/ WaitBatch
    \/ YieldBatch
    \/ LoopEnd
    \/ Cancel
    \/ RaiseFailed
    \/ Shutdown

\* The steps of the pool's worker threads (`_worker`): a worker that can take
\* a work item or start its helper does so.
WorkerThreads == Dequeue \/ RunSpawn

\* A helper process of a run ends, its output read to the end or found
\* undecodable: every helper process that is started terminates.
HelperTerminates == RunExit \/ RunDecodeError

\* main under a scheduler that lets every thread run, with helper processes
\* that terminate. The user may interrupt at any time, or never.
SpecLive ==
    /\ InitLive
    /\ [][Next]_vars
    /\ WF_vars(RunTargetsThread)
    /\ WF_vars(WorkerThreads)
    /\ WF_vars(HelperTerminates)

\* C22: with helper processes that terminate, run_targets, once called,
\* eventually returns or raises: for every max_parallel (zero and negative
\* ones, served by one worker) and every target list, and also after a
\* failure has cancelled the pending futures.
C22_RunTargetsEnds == BuildPhaseOver ~> RunTargetsEnded

\* run_targets was called with max_parallel <= 0 and three targets, a run
\* failed while the others were still queued, their futures were cancelled
\* and skipped by the one worker, and run_targets has raised.
C22_Witness ==
    /\ RunTargetsEnded
    /\ maxParallel <= 0
    /\ Len(targets) = 3
    /\ error.kind = "run"
    /\ {i \in DOMAIN fstate : fstate[i] = "CANCELLED_AND_NOTIFIED"} = {2, 3}

\* The positions of queue that hold the work item of target i.
QueuedAt(i) == {k \in DOMAIN queue : queue[k] = i}

\* Every work item is handed to one worker at most: a target's future is
\* queued once, it is no longer queued once a worker has taken it, and a run
\* invocation exists only for a future a worker has taken.
TakenOnce ==
    /\ Len(runs) = Len(fstate)
    /\ \A i \in DOMAIN fstate :
          /\ Cardinality(QueuedAt(i)) <= 1
          /\ QueuedAt(i) # {} <=> fstate[i] \in {"PENDING", "CANCELLED"}
          /\ runs[i].state # "none" => fstate[i] \in {"RUNNING", "FINISHED"}
          /\ fstate[i] = "FINISHED" => runs[i].state \in {"exited", "spawnfail", "abandoned"}

\* A step starts no second run invocation: a target whose helper was started,
\* or could not be, keeps that one invocation, which only goes on to its end.
StartedOnce ==
    \A i \in DOMAIN runs :
        runs[i].state # "none" =>
            /\ i \in DOMAIN runs'
            /\ runs'[i].state # "none"
            /\ runs'[i].state = "running" => runs[i].state = "running"
            /\ runs'[i].state = "spawnfail" => runs[i].state = "spawnfail"

\* run_targets has returned without an exception, and main with status 0.
RunTargetsReturned == RunTargetsEnded /\ pc = "done" /\ error = NoError

\* C23: no target's run invocation is started more than once, and when
\* run_targets has returned successfully every target of the list had its one
\* run invocation, which exited with status 0.
C23_OneRunPerTarget ==
    /\ [][StartedOnce]_vars
    /\ [](TakenOnce)
    /\ [](RunTargetsReturned =>
            /\ Len(runs) = Len(targets)
            /\ \A i \in DOMAIN targets :
                  /\ runs[i].idx = i
                  /\ runs[i].state = "exited"
                  /\ runs[i].code = 0)

\* run_targets has returned for three targets run by two workers, each run
\* once with exit status 0.
C23_Witness ==
    /\ RunTargetsReturned
    /\ Len(targets) = 3
    /\ maxParallel = 2
    /\ \A i \in DOMAIN targets : runs[i].state = "exited" /\ runs[i].code = 0

====
